---- MODULE Spec2Model ----
(***************************************************************************)
(* Model of producers/producer_core.py: the Producer lifecycle, its two    *)
(* multiprocessing queues, the worker loop Producer.run, the               *)
(* InjectableProducer specialisation, and the CountProducer subclass of    *)
(* tests/test_core.py.                                                     *)
(*                                                                         *)
(* The host process and the worker process interleave at the granularity   *)
(* of single queue operations.  A multiprocessing.Queue is modelled by its *)
(* interface: a FIFO sequence, a capacity (maxsize), a blocking put, a get *)
(* that times out on an empty queue, and a per-process closed flag.        *)
(***************************************************************************)
EXTENDS Integers, Sequences, FiniteSets, TLC

\* ------------------------------------------------------------------ bounds
MaxCap   == 2      \* largest bounded buffer_size tried (None is tried too)
MaxSend  == 2      \* how many items the host puts on inbound (send + stop)
MaxProd  == 3      \* how many times the worker invokes production_step

\* ------------------------------------------------------------- payloads
\* A payload is a record [t, n]: an integer, a string (the non-numeric
\* payload a host may send), None, or the Stop sentinel.
IntVal(n)    == [t |-> "int", n |-> n]
StrVal       == [t |-> "str", n |-> 0]
NoneVal      == [t |-> "none", n |-> 0]
STOP_MESSAGE == [t |-> "StopMessage", n |-> 0]

\* isinstance(msg, StopMessage)
IsStopMessage(m) == m.t = "StopMessage"

\* the payloads the host sends
SentValue == 50    \* c.send(50) in CoreTest.test_message_passing
Payloads  == {IntVal(SentValue), StrVal}

\* ------------------------------------------------------- outbound items
Result(p)               == [tag |-> "result", v |-> p, cause |-> "none"]
MessageHandlingErrorBad(c) == [tag |-> "ProductionStepError", v |-> NoneVal, cause |-> c]
MessageHandlingError(c) == [tag |-> "MessageHandlingError", v |-> NoneVal, cause |-> c]
ProductionStepError(c)  == [tag |-> "ProductionStepError", v |-> NoneVal, cause |-> c]

\* isinstance(res, ProductionError)
IsProductionError(x) == x.tag \in {"MessageHandlingError", "ProductionStepError"}

\* --------------------------------------------------------------- queues
\* Queue(maxsize=buffer_size); Queue() when buffer_size is None.  Capacity
\* 0 stands for the unbounded queue.
NoCap == 0

fullOffByOne(q, cap) == cap # NoCap /\ Len(q) > cap
fullUnlessEmpty(q, cap) == cap # NoCap /\ Len(q) >= 1
full(q, cap)  == cap # NoCap /\ Len(q) >= cap

empty(q) == q = <<>>

\* Queue.get / get_nowait on a non-empty queue: the oldest item
QHeadLifo(q) == q[Len(q)]
QHead(q) == Head(q)

QRestLifo(q) == SubSeq(q, 1, Len(q) - 1)
QRest(q) == Tail(q)

\* Queue.put / put_nowait once a slot is free: appended behind the others
QPutFront(q, x) == <<x>> \o q
QPut(q, x) == Append(q, x)

\* ------------------------------------------------------- configurations
\* kind "count":  CountProducer of tests/test_core.py
\* kind "inject": InjectableProducer with the named callables:
\*   inject_producer, inject_handler  the callables of InjectableTest.setUp
\*   peek, update                     the callables of the __init__ docstring
\*   triple                           a callable returning a 3-tuple
\*   bump_then_raise, set_then_raise  callables that modify the snapshot
\*                                    they are given and then raise
\*   none                             no callable given
\* buffer_size: 1 as in the tests, the largest one tried, or None
Caps == {1, MaxCap, NoCap}

InitialI == 10     \* initial_state = {'i': 10} in InjectableTest.setUp

Configs ==
  [kind : {"count"}, cap : Caps, produce : {"none"}, handle : {"none"}]
  \cup
  [kind : {"inject"}, cap : {1},
   produce : {"inject_producer"}, handle : {"inject_handler"}]
  \cup
  [kind : {"inject"}, cap : {MaxCap}, produce : {"peek"}, handle : {"update"}]
  \cup
  [kind : {"inject"}, cap : {1}, produce : {"none"}, handle : {"none"}]
  \cup
  [kind : {"inject"}, cap : {1}, produce : {"triple"}, handle : {"none"}]
  \cup
  [kind : {"inject"}, cap : {1},
   produce : {"bump_then_raise"}, handle : {"set_then_raise"}]

VARIABLES
  cfg,         \* the producer built: subclass, buffer_size, injected callables
  did_start,   \* host: self._did_start
  running,     \* host: self._running (the host's copy of the object)
  process,     \* host: self.process, "None" / "Process"
  inbound,     \* the inbound queue (host -> worker)
  outbound,    \* the outbound queue (worker -> host)
  wpc,         \* worker: position in Producer.run ("none" = no worker)
  w_running,   \* worker: its copy of self._running
  w_closed,    \* worker: its queue handles were closed by _shutdown
  i,           \* worker: CountProducer.i
  state,       \* worker: InjectableProducer._state, the value under key 'i'
  msg,         \* worker: the message being handled
  exc,         \* worker: the exception caught by the handler's except clause
  last,        \* host: the latest call and its outcome
  start_called,\* history: start() was called
  spawned,     \* history: how many worker processes were launched
  sent,        \* history: what the host put on inbound, in order
  handled,     \* history: the messages handle_message was invoked on
  appended,    \* history: what the worker put on outbound, in order
  flushed,     \* history: how many outbound items the worker itself removed
  got,         \* history: what get() took from outbound, in order
  attempts,    \* history: how many times production_step was invoked
  hraised,     \* history: the exceptions handle_message raised, in order
  lastDone,    \* history: the message whose handling completed last
  mark         \* history: Len(appended) when that handling completed

vars == <<cfg, did_start, running, process, inbound, outbound, wpc, w_running,
          w_closed, i, state, msg, exc, last, start_called, spawned, sent,
          handled, appended, flushed, got, attempts, hraised, lastDone, mark>>

hostVars   == <<did_start, running, process, last, start_called, sent, got>>
workerVars == <<wpc, w_running, w_closed, i, state, msg, exc, handled,
                appended, flushed, attempts, hraised, lastDone, mark>>

Outcome(op, outcome) == [op |-> op, outcome |-> outcome]

\* Producer.__init__ / InjectableProducer.__init__ / CountProducer.__init__
Init ==
  /\ cfg \in Configs
  /\ did_start = FALSE
  /\ running = FALSE
  /\ process = "None"
  /\ inbound = <<>>
  /\ outbound = <<>>
  /\ wpc = "none"
  /\ w_running = FALSE
  /\ w_closed = FALSE
  /\ i = IntVal(0)
  /\ state = IntVal(InitialI)
  /\ msg = NoneVal
  /\ exc = "none"
  /\ last = Outcome("init", "ok")
  /\ start_called = FALSE
  /\ spawned = 0
  /\ sent = <<>>
  /\ handled = <<>>
  /\ appended = <<>>
  /\ flushed = 0
  /\ got = <<>>
  /\ attempts = 0
  /\ hraised = <<>>
  /\ lastDone = NoneVal
  /\ mark = 0

\* =================================================================== host

\* Producer.start, the call that finds _did_start false.  The flags are set
\* before Process.start(), which may fail to launch the child (launched =
\* FALSE): the flags stay set either way.  The child starts run with its
\* copy of _running true, so it enters the while loop.
startFirstNoFlag ==
  /\ ~did_start
  /\ \E launched \in BOOLEAN :
       /\ process' = "Process"
       /\ did_start' = did_start
       /\ running' = TRUE
       /\ start_called' = TRUE
       /\ IF launched
            THEN /\ spawned' = spawned + 1
                 /\ wpc' = "drain"
                 /\ w_running' = TRUE
                 /\ last' = Outcome("start", "ok")
            ELSE /\ UNCHANGED <<spawned, wpc, w_running>>
                 /\ last' = Outcome("start", "OSError")
  /\ UNCHANGED <<cfg, inbound, outbound, w_closed, i, state, msg, exc, sent,
                 handled, appended, flushed, got, attempts, hraised, lastDone,
                 mark>>

startFirst ==
  /\ ~did_start
  /\ \E launched \in BOOLEAN :
       /\ process' = "Process"
       /\ did_start' = TRUE
       /\ running' = TRUE
       /\ start_called' = TRUE
       /\ IF launched
            THEN /\ spawned' = spawned + 1
                 /\ wpc' = "drain"
                 /\ w_running' = TRUE
                 /\ last' = Outcome("start", "ok")
            ELSE /\ UNCHANGED <<spawned, wpc, w_running>>
                 /\ last' = Outcome("start", "OSError")
  /\ UNCHANGED <<cfg, inbound, outbound, w_closed, i, state, msg, exc, sent,
                 handled, appended, flushed, got, attempts, hraised, lastDone,
                 mark>>

\* Producer.start, the call that finds _did_start true
startAgain ==
  /\ did_start
  /\ last' = Outcome("start", "AlreadyStartedError")
  /\ UNCHANGED <<cfg, did_start, running, process, start_called, inbound,
                 outbound, sent, got, spawned>>
  /\ UNCHANGED workerVars

start == startFirst \/ startAgain

\* Producer.send: inbound.put_nowait(msg) on the unbounded inbound queue
send(m) ==
  /\ Len(sent) < MaxSend
  /\ inbound' = QPut(inbound, m)
  /\ sent' = Append(sent, m)
  /\ last' = Outcome("send", "ok")
  /\ UNCHANGED <<cfg, did_start, running, process, start_called, outbound,
                 got, spawned>>
  /\ UNCHANGED workerVars

\* Producer.stop once started: self.send(STOP_MESSAGE)
stopStarted ==
  /\ did_start
  /\ Len(sent) < MaxSend
  /\ inbound' = QPut(inbound, STOP_MESSAGE)
  /\ sent' = Append(sent, STOP_MESSAGE)
  /\ last' = Outcome("stop", "ok")
  /\ UNCHANGED <<cfg, did_start, running, process, start_called, outbound,
                 got, spawned>>
  /\ UNCHANGED workerVars

\* Producer.stop before start: the if is false, nothing happens
stopUnstartedRaises ==
  /\ ~did_start
  /\ last' = Outcome("stop", "NotStartedException")
  /\ UNCHANGED <<cfg, did_start, running, process, start_called, inbound,
                 outbound, sent, got, spawned>>
  /\ UNCHANGED workerVars

stopUnstartedSends ==
  /\ ~did_start
  /\ Len(sent) < MaxSend
  /\ inbound' = QPut(inbound, STOP_MESSAGE)
  /\ sent' = Append(sent, STOP_MESSAGE)
  /\ last' = Outcome("stop", "ok")
  /\ UNCHANGED <<cfg, did_start, running, process, start_called, outbound,
                 got, spawned>>
  /\ UNCHANGED workerVars

stopUnstarted ==
  /\ ~did_start
  /\ last' = Outcome("stop", "ok")
  /\ UNCHANGED <<cfg, did_start, running, process, start_called, inbound,
                 outbound, sent, got, spawned>>
  /\ UNCHANGED workerVars

stop == stopStarted \/ stopUnstarted

\* Producer.get before start
getUnstartedNoCheck ==
  /\ ~did_start
  /\ IF empty(outbound)
       THEN /\ last' = Outcome("get", "Empty")
            /\ UNCHANGED <<outbound, got>>
       ELSE /\ outbound' = QRest(outbound)
            /\ got' = Append(got, QHead(outbound))
            /\ last' = Outcome("get", "returned")
  /\ UNCHANGED <<cfg, did_start, running, process, start_called, inbound,
                 sent, spawned>>
  /\ UNCHANGED workerVars

getUnstarted ==
  /\ ~did_start
  /\ last' = Outcome("get", "NotStartedException")
  /\ UNCHANGED <<cfg, did_start, running, process, start_called, inbound,
                 outbound, sent, got, spawned>>
  /\ UNCHANGED workerVars

\* what get() does with the item it dequeued: raise it or return it
DeliverAsValue(res) == "returned"
Deliver(res) == IF IsProductionError(res) THEN "raised" ELSE "returned"

\* Producer.get once started, an item is available within the timeout
getItem ==
  /\ did_start
  /\ ~empty(outbound)
  /\ outbound' = QRest(outbound)
  /\ got' = Append(got, QHead(outbound))
  /\ last' = Outcome("get", Deliver(QHead(outbound)))
  /\ UNCHANGED <<cfg, did_start, running, process, start_called, inbound,
                 sent, spawned>>
  /\ UNCHANGED workerVars

\* Producer.get once started, the timeout expires on an empty queue
getTimeout ==
  /\ did_start
  /\ empty(outbound)
  /\ last' = Outcome("get", "Empty")
  /\ UNCHANGED <<cfg, did_start, running, process, start_called, inbound,
                 outbound, sent, got, spawned>>
  /\ UNCHANGED workerVars

get == getUnstarted \/ getItem \/ getTimeout

\* ================================================================= worker
\* Positions of the worker in Producer.run:
\*   "drain"      at `while not inbound.empty()` (the outer `while
\*                self._running` was just passed)
\*   "flush"      in CountProducer.handle_message, at `while not
\*                self.outbound.empty()`
\*   "flush_get"  in CountProducer.handle_message, at get_nowait()
\*   "put_mhe"    in the except clause, at self.outbound.put(...)
\*   "produce"    at `if not outbound.full()`
\*   "done"       run returned None
\*   "crashed"    an exception escaped run
\* Statements that touch only the worker's own fields are taken together
\* with the queue operation before them.

\* the outcome of calling subclass or injected code: it raised `cause`, or
\* it returned `value` and left `next` as the stored state
Raised(cause, old)    == [raised |-> TRUE, cause |-> cause, value |-> NoneVal, next |-> old]
Returned(value, next) == [raised |-> FALSE, cause |-> "none", value |-> value, next |-> next]

\* CountProducer.production_step: res = self.i; self.i += 1; return res
CountProductionStepStuck(iv) ==
  IF iv.t = "int" THEN Returned(iv, iv) ELSE Raised("TypeError", iv)
CountProductionStep(iv) ==
  IF iv.t = "int" THEN Returned(iv, IntVal(iv.n + 1)) ELSE Raised("TypeError", iv)

\* a tuple of length len as a payload (what get() hands over when a tuple
\* is the production result)
TupleVal(len) == [t |-> "tuple", n |-> len]

\* the outcome of calling an injected callable on the snapshot: it raised
\* `cause` or returned; a return value is a tuple (first, second, ...) of
\* length len, or a plain value; `whole` is the return value as a payload
\* and `snap` is what the call left in the snapshot it was given
CallRaised(cause, snap) ==
  [raised |-> TRUE, cause |-> cause, istuple |-> FALSE, len |-> 0,
   first |-> NoneVal, second |-> NoneVal, whole |-> NoneVal, snap |-> snap]
CallTuple(len, first, second, snap) ==
  [raised |-> FALSE, cause |-> "none", istuple |-> TRUE, len |-> len,
   first |-> first, second |-> second, whole |-> TupleVal(len), snap |-> snap]
CallValue(value, snap) ==
  [raised |-> FALSE, cause |-> "none", istuple |-> FALSE, len |-> 0,
   first |-> NoneVal, second |-> NoneVal, whole |-> value, snap |-> snap]

\* i = state.get('i', 0); state['i'] = i + 1; return (state, i)
inject_producer(snapshot) ==
  IF snapshot.t = "int"
    THEN CallTuple(2, IntVal(snapshot.n + 1), snapshot, IntVal(snapshot.n + 1))
    ELSE CallRaised("TypeError", snapshot)

\* return state.get('i', 0)
peek(snapshot) == CallValue(snapshot, snapshot)

\* a callable whose return value is a tuple of three elements,
\* i = state['i']; return (dict(state, i=i + 1), i, 'more')
triple(snapshot) ==
  IF snapshot.t = "int"
    THEN CallTuple(3, IntVal(snapshot.n + 1), snapshot, snapshot)
    ELSE CallRaised("TypeError", snapshot)

\* a callable that modifies the snapshot it was given and then raises,
\* state['i'] = state['i'] + 1; raise ValueError()
bump_then_raise(snapshot) ==
  IF snapshot.t = "int"
    THEN CallRaised("ValueError", IntVal(snapshot.n + 1))
    ELSE CallRaised("TypeError", snapshot)

ProduceCallable(fn, snapshot) ==
  IF fn = "inject_producer" THEN inject_producer(snapshot)
  ELSE IF fn = "peek" THEN peek(snapshot)
  ELSE IF fn = "triple" THEN triple(snapshot)
  ELSE bump_then_raise(snapshot)

\* InjectableProducer.production_step: the callable gets a copy of the
\* stored state, so what it leaves in the snapshot is dropped
InjectProductionStepNoAdvance(fn, st) ==
  IF fn = "none" THEN Returned(NoneVal, st)
  ELSE LET result == ProduceCallable(fn, st) IN
       IF result.raised THEN Raised(result.cause, st)
       ELSE Returned(result.second, st)
InjectProductionStep(fn, st) ==
  IF fn = "none" THEN Returned(NoneVal, st)
  ELSE LET result == ProduceCallable(fn, st) IN
       IF result.raised THEN Raised(result.cause, st)
       ELSE IF result.istuple /\ result.len > 1
              THEN Returned(result.second, result.first)
              ELSE Returned(result.whole, st)

\* the injected handle callables, applied to the message and the snapshot:
\* they raise and leave `next` in the snapshot, or return `next`
\* state['i'] = msg; return state
inject_handler(m, snapshot) == Returned(NoneVal, m)

\* state.update(msg); return state, with a msg that is no mapping
update(m, snapshot) ==
  IF m.t = "int" THEN Raised("TypeError", snapshot) ELSE Raised("ValueError", snapshot)

\* a callable that modifies the snapshot it was given and then raises,
\* state['i'] = msg; raise ValueError()
set_then_raise(m, snapshot) == Raised("ValueError", m)

HandleCallable(fn, m, snapshot) ==
  IF fn = "inject_handler" THEN inject_handler(m, snapshot)
  ELSE IF fn = "update" THEN update(m, snapshot)
  ELSE set_then_raise(m, snapshot)

\* InjectableProducer.handle_message: the callable gets a copy of the
\* stored state; only a returned value is assigned to self._state
InjectHandleMessageNoCopy(fn, m, st) ==
  IF fn = "none" THEN Returned(NoneVal, st)
  ELSE LET r == HandleCallable(fn, m, st) IN
       IF r.raised THEN Raised(r.cause, r.next) ELSE Returned(NoneVal, r.next)
InjectHandleMessage(fn, m, st) ==
  IF fn = "none" THEN Returned(NoneVal, st)
  ELSE LET r == HandleCallable(fn, m, st) IN
       IF r.raised THEN Raised(r.cause, st) ELSE Returned(NoneVal, r.next)

\* self.production_step() as the worker loop sees it
production_step ==
  IF cfg.kind = "count" THEN CountProductionStep(i)
  ELSE InjectProductionStep(cfg.produce, state)

\* what the worker loop puts on outbound for a production step's outcome
ProducedItemDropError(r) == Result(r.value)
ProducedItem(r) ==
  IF r.raised THEN ProductionStepError(r.cause) ELSE Result(r.value)

\* Producer._shutdown, in the worker process
shutdown ==
  /\ w_closed' = TRUE
  /\ w_running' = FALSE

\* run: `while not inbound.empty()` finds inbound empty
drainEmpty ==
  /\ wpc = "drain"
  /\ empty(inbound)
  /\ wpc' = "produce"
  /\ UNCHANGED <<cfg, inbound, outbound, w_running, w_closed, i, state, msg,
                 exc, handled, appended, flushed, attempts, spawned, hraised,
                 lastDone, mark>>
  /\ UNCHANGED hostVars

\* run: msg = inbound.get_nowait() is a StopMessage: _shutdown() and break
drainStopNoBreak ==
  /\ wpc = "drain"
  /\ ~empty(inbound)
  /\ IsStopMessage(QHead(inbound))
  /\ inbound' = QRest(inbound)
  /\ shutdown
  /\ wpc' = "drain"
  /\ UNCHANGED <<cfg, outbound, i, state, msg, exc, handled, appended,
                 flushed, attempts, spawned, hraised, lastDone, mark>>
  /\ UNCHANGED hostVars

drainStop ==
  /\ wpc = "drain"
  /\ ~empty(inbound)
  /\ IsStopMessage(QHead(inbound))
  /\ inbound' = QRest(inbound)
  /\ shutdown
  /\ wpc' = "produce"
  /\ UNCHANGED <<cfg, outbound, i, state, msg, exc, handled, appended,
                 flushed, attempts, spawned, hraised, lastDone, mark>>
  /\ UNCHANGED hostVars

\* run: msg = inbound.get_nowait() is a payload, and the worker is a
\* CountProducer: handle_message starts with self.i = msg
drainCount ==
  /\ wpc = "drain"
  /\ cfg.kind = "count"
  /\ ~empty(inbound)
  /\ ~IsStopMessage(QHead(inbound))
  /\ inbound' = QRest(inbound)
  /\ msg' = QHead(inbound)
  /\ handled' = Append(handled, QHead(inbound))
  /\ i' = QHead(inbound)
  /\ wpc' = "flush"
  /\ UNCHANGED <<cfg, outbound, w_running, w_closed, state, exc, appended,
                 flushed, attempts, spawned, hraised, lastDone, mark>>
  /\ UNCHANGED hostVars

\* CountProducer.handle_message: while not self.outbound.empty()
flush ==
  /\ wpc = "flush"
  /\ IF empty(outbound)
       THEN /\ wpc' = "drain"
            /\ lastDone' = msg
            /\ mark' = Len(appended)
       ELSE /\ wpc' = "flush_get"
            /\ UNCHANGED <<lastDone, mark>>
  /\ UNCHANGED <<cfg, inbound, outbound, w_running, w_closed, i, state, msg,
                 exc, handled, appended, flushed, attempts, spawned, hraised>>
  /\ UNCHANGED hostVars

\* CountProducer.handle_message: self.outbound.get_nowait(), which raises
\* Empty when the host took the item after the empty() test
flush_get ==
  /\ wpc = "flush_get"
  /\ IF empty(outbound)
       THEN /\ exc' = "Empty"
            /\ hraised' = Append(hraised, "Empty")
            /\ wpc' = "put_mhe"
            /\ UNCHANGED <<outbound, flushed>>
       ELSE /\ outbound' = QRest(outbound)
            /\ flushed' = flushed + 1
            /\ wpc' = "flush"
            /\ UNCHANGED <<exc, hraised>>
  /\ UNCHANGED <<cfg, inbound, w_running, w_closed, i, state, msg, handled,
                 appended, attempts, spawned, lastDone, mark>>
  /\ UNCHANGED hostVars

\* run: msg = inbound.get_nowait() is a payload, and the worker is an
\* InjectableProducer: handle_message under the try of run
drainInject ==
  /\ wpc = "drain"
  /\ cfg.kind = "inject"
  /\ ~empty(inbound)
  /\ ~IsStopMessage(QHead(inbound))
  /\ inbound' = QRest(inbound)
  /\ msg' = QHead(inbound)
  /\ handled' = Append(handled, QHead(inbound))
  /\ LET r == InjectHandleMessage(cfg.handle, QHead(inbound), state) IN
       IF r.raised
         THEN /\ exc' = r.cause
              /\ hraised' = Append(hraised, r.cause)
              /\ wpc' = "put_mhe"
              /\ state' = r.next
              /\ UNCHANGED <<lastDone, mark>>
         ELSE /\ state' = r.next
              /\ wpc' = "drain"
              /\ lastDone' = QHead(inbound)
              /\ mark' = Len(appended)
              /\ UNCHANGED <<exc, hraised>>
  /\ UNCHANGED <<cfg, outbound, w_running, w_closed, i, appended, flushed,
                 attempts, spawned>>
  /\ UNCHANGED hostVars

\* run: except Exception as e: self.outbound.put(MessageHandlingError(e)),
\* a blocking put: it waits while outbound is full
put_mhe ==
  /\ wpc = "put_mhe"
  /\ ~full(outbound, cfg.cap)
  /\ outbound' = QPut(outbound, MessageHandlingError(exc))
  /\ appended' = Append(appended, MessageHandlingError(exc))
  /\ exc' = "none"
  /\ wpc' = "drain"
  /\ lastDone' = msg
  /\ mark' = Len(appended')
  /\ UNCHANGED <<cfg, inbound, w_running, w_closed, i, state, msg, handled,
                 flushed, attempts, spawned, hraised>>
  /\ UNCHANGED hostVars

\* run: the outer `while self._running`, reached at the end of an iteration
WhileRunning == IF w_running THEN "drain" ELSE "done"

\* run: if not outbound.full(): -- the test finds the queue full
produceSkip ==
  /\ wpc = "produce"
  /\ full(outbound, cfg.cap)
  /\ wpc' = WhileRunning
  /\ UNCHANGED <<cfg, inbound, outbound, w_running, w_closed, i, state, msg,
                 exc, handled, appended, flushed, attempts, spawned, hraised,
                 lastDone, mark>>
  /\ UNCHANGED hostVars

\* run: if not outbound.full(): try: outbound.put(self.production_step())
\* except Exception as e: self.outbound.put(ProductionStepError(e)).
\* Only the worker puts on outbound, so the put finds the free slot the
\* test saw.  On handles closed by _shutdown both puts raise ValueError
\* and the second one escapes run.
produce ==
  /\ wpc = "produce"
  /\ ~full(outbound, cfg.cap)
  /\ attempts < MaxProd
  /\ attempts' = attempts + 1
  /\ LET r == production_step IN
       /\ IF cfg.kind = "count"
            THEN i' = r.next /\ UNCHANGED state
            ELSE state' = r.next /\ UNCHANGED i
       /\ IF w_closed
            THEN /\ wpc' = "crashed"
                 /\ UNCHANGED <<outbound, appended>>
            ELSE /\ outbound' = QPut(outbound, ProducedItem(r))
                 /\ appended' = Append(appended, ProducedItem(r))
                 /\ wpc' = WhileRunning
  /\ UNCHANGED <<cfg, inbound, w_running, w_closed, msg, exc, handled,
                 flushed, spawned, hraised, lastDone, mark>>
  /\ UNCHANGED hostVars

\* the worker's steps other than the drain of a Stop sentinel
working == drainEmpty \/ drainCount \/ flush \/ flush_get \/ drainInject
             \/ put_mhe \/ produceSkip \/ produce

worker == working \/ drainStop

host == start \/ stop \/ get \/ (\E m \in Payloads : send(m))

Next == host \/ worker

Spec == Init /\ [][Next]_vars

\* a producer built with a bounded buffer_size whose stop() is never
\* called, and a scheduler that keeps running the worker process
FairInit == Init /\ cfg.cap # NoCap
FairNext == start \/ get \/ (\E m \in Payloads : send(m)) \/ working
FairSpec == FairInit /\ [][FairNext]_vars /\ WF_vars(working)

\* any producer, any host calls (stop() included, and a host that stops
\* calling get()), and a scheduler that keeps running the worker process
StopFairSpec == Init /\ [][Next]_vars /\ WF_vars(worker)

\* ================================================================ claims

IsPrefix(a, b) == Len(a) <= Len(b) /\ a = SubSeq(b, 1, Len(a))
IsSuffix(a, b) == Len(a) <= Len(b) /\ a = SubSeq(b, Len(b) - Len(a) + 1, Len(b))

\* the step is a host call of `op` (a call that changes nothing at all is a
\* stuttering step)
HostCalled(op) ==
  /\ last'.op = op
  /\ last' # last \/ got' # got \/ sent' # sent \/ spawned' # spawned

Bounded == cfg.cap # NoCap

StopSent == \E k \in 1..Len(sent) : IsStopMessage(sent[k])

WorkerAlive == wpc \notin {"none", "done", "crashed"}

C2_StartOnce ==
  /\ [](spawned <= 1)
  /\ [][(HostCalled("start") /\ start_called) =>
          /\ last'.outcome = "AlreadyStartedError"
          /\ spawned' = spawned
          /\ UNCHANGED <<wpc, w_running, did_start, process>>]_vars

\* a second start() failed after a first start() that launched no worker
C2_Witness ==
  /\ start_called /\ spawned = 0
  /\ last.op = "start" /\ last.outcome = "AlreadyStartedError"

\* C3: with capacity N the outbound queue never holds more than N items,
\* results and both kinds of error items counted alike.
C3_OutboundWithinCapacity == Bounded => Len(outbound) <= cfg.cap

\* outbound is full and holds a result, a ProductionStepError or result,
\* and a MessageHandlingError
C3_Witness ==
  /\ Bounded /\ Len(outbound) = cfg.cap
  /\ \E k \in 1..Len(outbound) : outbound[k].tag = "MessageHandlingError"
  /\ \E k \in 1..Len(outbound) : outbound[k].tag # "MessageHandlingError"

\* C4: on a started producer of capacity N whose stop() is not called, a
\* fairly scheduled worker that finds outbound below N goes on appending
\* items until outbound holds N items (or the production budget of the
\* model is used up); so gets beyond the first N are served.
C4_Refill ==
  (WorkerAlive /\ Len(outbound) < cfg.cap)
    ~> (Len(outbound) = cfg.cap \/ attempts = MaxProd)

\* the host took N items and outbound is full again
C4_Witness ==
  /\ WorkerAlive /\ ~StopSent
  /\ Len(got) >= cfg.cap /\ Len(outbound) = cfg.cap
  /\ Len(appended) > cfg.cap

RECURSIVE IsSubseq(_, _)
IsSubseq(a, b) ==
  IF a = <<>> THEN TRUE
  ELSE IF b = <<>> THEN FALSE
  ELSE IF Head(a) = Head(b) THEN IsSubseq(Tail(a), Tail(b))
  ELSE IsSubseq(a, Tail(b))

RECURSIVE SelectItems(_, _)
SelectItems(q, tags) ==
  IF q = <<>> THEN <<>>
  ELSE IF Head(q).tag \in tags THEN <<Head(q)>> \o SelectItems(Tail(q), tags)
  ELSE SelectItems(Tail(q), tags)

RECURSIVE NonStop(_)
NonStop(q) ==
  IF q = <<>> THEN <<>>
  ELSE IF IsStopMessage(Head(q)) THEN NonStop(Tail(q))
  ELSE <<Head(q)>> \o NonStop(Tail(q))

\* the production results 0, 1, 2, ... of a counter started at n
CountingFrom(n, len) == [k \in 1..len |-> Result(IntVal(n + k - 1))]

\* C5 as stated: what the host obtained from successive get() calls is a
\* prefix of what the worker appended to outbound, in every reachable state.
C5_GotIsPrefixOfAppended == IsPrefix(got, appended)

\* C5 as amended: what the host obtained is, in order, what the worker
\* appended and did not remove again itself: a prefix of the appended items
\* as long as the worker's handle_message has removed none of them, and in
\* any case a subsequence of them followed in the queue by the latest
\* appended items; a CountProducer that has handled no message yields
\* 0, 1, 2, ... without gap, duplicate or swap.
C5_GotInAppendOrder ==
  /\ flushed = 0 => appended = got \o outbound
  /\ IsSubseq(got, appended)
  /\ IsSuffix(outbound, appended)
  /\ Len(got) + Len(outbound) + flushed = Len(appended)
  /\ (cfg.kind = "count" /\ handled = <<>>) => got = CountingFrom(0, Len(got))

\* the host sent a message and obtained three items of an unflushed queue
C5_Witness ==
  /\ flushed = 0 /\ Len(got) >= 3 /\ Len(NonStop(sent)) >= 1
  /\ got[1] # got[2] /\ got[2] # got[3]

\* C6: the messages handle_message was invoked on are, in order, a prefix
\* of the non-Stop messages the host sent.
C6_HandledInSendOrder == IsPrefix(handled, NonStop(sent))

\* two different messages were handled
C6_Witness == Len(handled) = 2 /\ handled[1] # handled[2]

\* C7 as stated: every invocation of production_step has put exactly one
\* item, a result or a ProductionStepError, on outbound, and no invocation
\* has ended the worker.
C7_OneItemPerProductionStep ==
  /\ Len(SelectItems(appended, {"result", "ProductionStepError"})) = attempts
  /\ wpc # "crashed"

\* C8: each exception raised by handle_message is put on outbound as one
\* MessageHandlingError carrying that exception, in the order raised; the
\* worker that caught it is still running with open queues, and after the
\* put it is back at the inbound drain.
C8_HandlerErrorReported ==
  /\ [](/\ SelectItems(appended, {"MessageHandlingError"})
             = [k \in 1..(Len(hraised) - (IF wpc = "put_mhe" THEN 1 ELSE 0))
                  |-> [tag |-> "MessageHandlingError", v |-> NoneVal,
                       cause |-> hraised[k]]]
        /\ wpc = "put_mhe" =>
             /\ w_running /\ ~w_closed
             /\ hraised # <<>> /\ exc = hraised[Len(hraised)])
  /\ [][(wpc = "put_mhe" /\ wpc' # "put_mhe") =>
          /\ wpc' = "drain" /\ w_running' /\ ~w_closed'
          /\ Len(appended') = Len(appended) + 1
          /\ inbound' = inbound]_vars

\* after a handler error the worker handled a further message and put a
\* further production result on outbound
C8_Witness ==
  /\ Len(hraised) >= 1 /\ Len(handled) >= 2
  /\ \E k \in 1..Len(appended) : \E j \in (k+1)..Len(appended) :
       /\ appended[k].tag = "MessageHandlingError"
       /\ appended[j].tag = "result"
  /\ wpc = "drain"

\* C9: a get() on a started producer either takes the head item of
\* outbound and returns it (a production result), or takes the head item
\* and raises it (a ProductionError), or times out on an empty outbound and
\* leaves it unchanged; an error item is never returned as a value.
C9_GetOutcomes ==
  /\ [](last.op = "get" /\ last.outcome = "returned"
          => got # <<>> /\ got[Len(got)].tag = "result")
  /\ [][(HostCalled("get") /\ did_start) =>
          \/ /\ outbound # <<>> /\ Head(outbound).tag = "result"
             /\ last'.outcome = "returned"
             /\ got' = Append(got, Head(outbound))
             /\ outbound' = Tail(outbound)
          \/ /\ outbound # <<>> /\ Head(outbound).tag # "result"
             /\ last'.outcome = "raised"
             /\ got' = Append(got, Head(outbound))
             /\ outbound' = Tail(outbound)
          \/ /\ outbound = <<>>
             /\ last'.outcome = "Empty"
             /\ outbound' = outbound /\ got' = got]_vars

\* a get() raised an error item and the item behind it is now at the head
C9_Witness ==
  /\ last.op = "get" /\ last.outcome = "raised"
  /\ got # <<>> /\ IsProductionError(got[Len(got)])
  /\ outbound # <<>> /\ Head(outbound).tag = "result"

\* the producer counts: CountProducer, or the callables of InjectableTest
Counting ==
  \/ cfg.kind = "count"
  \/ cfg.produce = "inject_producer" /\ cfg.handle = "inject_handler"

\* how many items of outbound were appended before the latest handling of a
\* message completed
OldInOutbound ==
  IF Len(outbound) > Len(appended) - mark
    THEN Len(outbound) - (Len(appended) - mark) ELSE 0

\* C10: once a counting producer has handled the number m, the items it
\* appends from then on are m, m+1, m+2, ... in order; outbound is the tail
\* of what was appended, so the host gets at most N items appended before
\* that (no production result at all among them for CountProducer, whose
\* handler flushes outbound) and then m, m+1, ...
C10_CountsFromMessage ==
  (Counting /\ lastDone.t = "int") =>
    /\ mark <= Len(appended)
    /\ SubSeq(appended, mark + 1, Len(appended))
         = CountingFrom(lastDone.n, Len(appended) - mark)
    /\ IsSuffix(outbound, appended)
    /\ Bounded => OldInOutbound <= cfg.cap
    /\ cfg.kind = "count" =>
         \A k \in 1..OldInOutbound : outbound[k].tag # "result"

\* the host got m and m+1 right after an item from before the message
C10_Witness ==
  /\ Counting /\ lastDone = IntVal(SentValue)
  /\ Len(got) >= 3
  /\ got[Len(got)] = Result(IntVal(SentValue + 1))
  /\ got[Len(got) - 1] = Result(IntVal(SentValue))
  /\ got[Len(got) - 2].tag = "result"

\* C11 as stated: a stop() on a producer whose start() was never called
\* fails with NotStartedException.
C11_StopBeforeStartRaises ==
  (last.op = "stop" /\ ~did_start) => last.outcome = "NotStartedException"

\* C11 as amended: a stop() on a producer whose start() was never called
\* returns normally; no exception is raised at the call site.
C11_StopBeforeStartReturns ==
  (last.op = "stop" /\ ~did_start) => last.outcome = "ok"

C11_Witness == last = Outcome("stop", "ok") /\ ~did_start /\ ~start_called

\* C12: the lifecycle runs NotStarted -> Running -> Stopped, each transition
\* at most once: a started producer is never NotStarted again, the producer
\* is observably Stopped (its _running flag is False) once the worker has
\* drained the Stop sentinel, and a Stopped producer never runs again,
\* whatever the host calls.
C12_Lifecycle ==
  /\ [][did_start => did_start']_vars
  /\ [][(did_start /\ ~running) => ~running']_vars
  /\ [][w_closed => (w_closed' /\ ~w_running')]_vars
  /\ [](w_closed => ~running)

\* C13: with a bounded outbound of capacity N the worker never invokes
\* production_step while outbound holds N items: every invocation finds a
\* free slot, and the item put in the same iteration fits without waiting.
C13_ProducesOnlyWithFreeSlot ==
  [][(Bounded /\ attempts' # attempts) =>
       /\ attempts' = attempts + 1
       /\ Len(outbound) < cfg.cap
       /\ Len(outbound') <= cfg.cap]_vars

C13_Witness ==
  /\ Bounded
  /\ attempts > Len(outbound)
  /\ Len(outbound) = cfg.cap
  /\ wpc = "drain"
  /\ ~w_closed

\* C14: once the worker has dequeued the Stop sentinel and closed its
\* channels, production_step is never invoked again and nothing more is
\* appended to outbound, whether outbound was full or not.
C14_NoProductionAfterStop ==
  [][w_closed => (attempts' = attempts /\ appended' = appended)]_vars

\* C15: the worker loop ends only by draining the Stop sentinel and always
\* ends by returning normally: no exception escapes the loop, before or
\* after the Stop sentinel.
C15_WorkerReturnsNormally ==
  /\ wpc # "crashed"
  /\ wpc = "done" => (w_closed /\ StopSent)

\* C16: after stop() on a started producer whose worker runs, and with
\* nothing assumed but a scheduler that keeps running the worker (the host
\* need not call get()), the worker eventually dequeues the Stop sentinel
\* and leaves its loop; it cannot stay blocked on an outbound put while the
\* Stop sentinel waits in inbound.  (attempts = MaxProd is the end of the
\* model's production budget.)
C16_StopEndsWorker ==
  (StopSent /\ spawned = 1)
    ~> (wpc \in {"done", "crashed"} \/ attempts = MaxProd)

FirstStop(q) ==
  CHOOSE k \in 1..Len(q) :
    IsStopMessage(q[k]) /\ \A j \in 1..(k - 1) : ~IsStopMessage(q[j])

\* C17: when the worker has shut down, handle_message has been invoked on
\* exactly the messages sent ahead of the first Stop sentinel, in that
\* order, and everything sent behind that sentinel (a second Stop included)
\* is still in inbound: it is never dequeued or handled.
C17_HandledExactlyBeforeStop ==
  w_closed =>
    /\ StopSent
    /\ handled = SubSeq(sent, 1, FirstStop(sent) - 1)
    /\ inbound = SubSeq(sent, FirstStop(sent) + 1, Len(sent))

\* a message was handled before the shutdown
C17_Witness ==
  /\ w_closed
  /\ Len(sent) = MaxSend
  /\ IsStopMessage(sent[MaxSend])
  /\ handled = SubSeq(sent, 1, MaxSend - 1)
  /\ handled # <<>>
  /\ wpc \in {"done", "crashed"}

\* a message sent behind the Stop sentinel stays in inbound
C17_WitnessBehind ==
  /\ w_closed
  /\ IsStopMessage(sent[1])
  /\ Len(inbound) = MaxSend - 1
  /\ inbound # <<>>
  /\ wpc \in {"done", "crashed"}

C19_PairOrPlainResult ==
  [][(cfg.kind = "inject" /\ attempts' # attempts) =>
       LET r == ProduceCallable(cfg.produce, state)
           put == appended' # appended
           item == appended'[Len(appended')]
       IN  IF cfg.produce = "none"
             THEN state' = state /\ (put => item = Result(NoneVal))
           ELSE IF r.raised THEN TRUE
           ELSE IF r.istuple /\ r.len = 2
             THEN state' = r.first /\ (put => item = Result(r.second))
             ELSE state' = state /\ (put => item = Result(r.whole))]_vars

\* C20: a stop() before start() changes neither inbound nor the lifecycle
\* flags nor anything of the worker: no Stop sentinel is enqueued by it, so
\* a Stop sentinel is in flight only for a started producer and a worker
\* started later shuts down only on a stop() made after start().
C20_EarlyStopLeavesNoTrace ==
  /\ [][(HostCalled("stop") /\ ~did_start) =>
          /\ UNCHANGED <<inbound, outbound, did_start, running, process,
                         sent, spawned, start_called, got, cfg>>
          /\ UNCHANGED workerVars]_vars
  /\ [](StopSent => did_start)
  /\ [](w_closed => StopSent)

\* stop() was called on an unstarted producer that had been sent a message
C20_Witness ==
  /\ last.op = "stop"
  /\ ~did_start /\ ~running /\ process = "None"
  /\ inbound = sent /\ Len(sent) = 1
  /\ wpc = "none"

====
